---- MODULE Spec2Model ----
(***************************************************************************)
(* A model of nfs_status.py: the Test / TestRunner classes, the six probe  *)
(* predicates, the remediation actions (mount_raid, email_alert), log and  *)
(* main.  One process, run either through main (the six checks of lines    *)
(* 235-257) or through a caller that uses the Test / TestRunner API as     *)
(* described in the comment of lines 19-28.                                *)
(*                                                                         *)
(* Strings that take part in a substring test (command output, host,       *)
(* share, mount point, device) are sequences of tokens; "x in s" is        *)
(* contiguous containment of token sequences.                              *)
(***************************************************************************)
EXTENDS Integers, Sequences, FiniteSets, TLC

VARIABLES
    pc,         \* position of the process
    entry,      \* "none", "main" or "api": who drives the TestRunner
    runner,     \* TestRunner.tests: the ordered list of Test objects
    registered, \* per Test, the add_fail_action / add_success_action calls made on it, in order
    calls,      \* configuration calls made so far by the api caller
    idx,        \* position of the loop of run_tests (1-based)
    ret,        \* ret of the Test.run in progress
    queue,      \* actions of the selected set still to execute in Test.run
    call,       \* arguments of the mount_raid call in progress
    exitCode,   \* exit status of the process, meaningful when pc = "exited"
    aborted,    \* the process ended by an uncaught exception
    mtab,       \* the machine's mount table, oldest mount first
    startMtab,  \* the mount table the process started with
    probe,      \* the probe file: [mode, content]
    logged,     \* log() calls made so far: [status, msg]
    lastWritten,\* the file write of the latest log() call succeeded
    stderr,     \* some log() call reported a write error on stderr
    trace       \* what ran so far, in order

vars == <<pc, entry, runner, registered, calls, idx, ret, queue, call, exitCode, aborted,
          mtab, startMtab, probe, logged, lastWritten, stderr, trace>>

----------------------------------------------------------------------------
(* Bound of the api caller: the configuration calls it makes *)
MaxCalls == 4

(* Bound of the probe caller: the probe calls it makes *)
MaxProbes == 4

----------------------------------------------------------------------------
(* Configuration values of main, lines 219-224 *)
host == <<"172.16.1.1">>
share == <<"logs">>
mount_point == <<"/", "mnt", "/", "logs">>
test_fp == mount_point \o <<"/", "status.test">>
raid == <<"/", "dev", "/", "sda1">>

(* needle in hay, for strings as token sequences *)
Contains(needle, hay) ==
    \E i \in 1..(Len(hay) - Len(needle) + 1) :
        SubSeq(hay, i, i + Len(needle) - 1) = needle

----------------------------------------------------------------------------
(* The machine *)

NfsDev == host \o <<":", "/">> \o share
OtherMp == <<"/", "data">>

MtabEntry(dev, mp) == [dev |-> dev, mp |-> mp]

InitMtabs ==
    { <<>>,
      <<MtabEntry(NfsDev, mount_point)>>,
      <<MtabEntry(raid, mount_point)>>,
      <<MtabEntry(raid, OtherMp)>>,
      <<MtabEntry(NfsDev, mount_point), MtabEntry(raid, OtherMp)>> }

RECURSIVE DfLines(_)
DfLines(tab) ==
    IF tab = <<>> THEN <<>>
    ELSE Head(tab).dev \o <<" ">> \o Head(tab).mp \o <<"\n">> \o DfLines(Tail(tab))

(* stdout of "df -h" *)
DfOutput(tab) == <<"Filesystem Mounted on", "\n">> \o DfLines(tab)

(* stdout of "rpcinfo -t host nfs 4" *)
RpcOutputs ==
    { <<"program 100003 ", "version ", "4", " ready and waiting", "\n">>,
      <<"program 100003 ", "version ", "3", " ready and waiting", "\n">>,
      <<>> }

(* stdout of "showmount -e host" *)
ShowmountOutputs ==
    { <<"Export list for ">> \o host \o <<":\n", "/", "logs", " *\n">>,
      <<"Export list for ">> \o host \o <<":\n", "/", "data", " *\n">>,
      <<>> }

(* os.system(cmd): the exit status of the command, or the command never returns *)
OsSystemOutcomes ==
    { [done |-> TRUE, st |-> 0], [done |-> TRUE, st |-> 256], [done |-> FALSE, st |-> 0] }

ProbeModes == {"rw", "ro", "absent"}

LastAt(tab, mp) ==
    IF \E i \in DOMAIN tab : tab[i].mp = mp
    THEN CHOOSE i \in DOMAIN tab : tab[i].mp = mp /\ \A j \in DOMAIN tab : tab[j].mp = mp => j <= i
    ELSE 0

(* the mount table after a successful "umount -fl mp" *)
UmountTab(tab, mp) ==
    LET k == LastAt(tab, mp)
    IN  IF k = 0 THEN tab ELSE SubSeq(tab, 1, k - 1) \o SubSeq(tab, k + 1, Len(tab))

(* the mount table after a successful "mount dev mp" *)
MountTab(tab, dev, mp) == Append(tab, MtabEntry(dev, mp))

----------------------------------------------------------------------------
(* Pure parts of the program *)

(* variant: what the command printed before the timeout is returned *)
get_stdout_partial(out, timedOut) == out

get_stdout(out, timedOut) == IF timedOut THEN <<>> ELSE out

ping_test(ping_ret) == ping_ret = 0

server_available(rpc_output) ==
    Contains(<<"version ", "4", " ready and waiting">>, rpc_output)

share_available(h, s, showmount_output) == Contains(<<"/", "logs">>, showmount_output)

share_mounted(h, s, mp, df_output) ==
    Contains(h \o <<":", "/">> \o s, df_output) /\ Contains(mp, df_output)

share_readable(mode) == mode \in {"rw", "ro"}

(* share_writeable, lines 156-162: open(test_fp, "w") succeeds on a        *)
(* writeable file, and on a missing one when it can be created             *)
share_writeable(mode, created) == mode = "rw" \/ (mode = "absent" /\ created)

(* variant: the probe file is removed after the write *)
ProbeAfterWrite_removed(p, ok) ==
    IF ok THEN [mode |-> "absent", content |-> "timestamp"] ELSE p

(* the probe file after share_writeable: truncated and holding the timestamp *)
ProbeAfterWrite(p, ok) == IF ok THEN [mode |-> "rw", content |-> "timestamp"] ELSE p

(* variant: the device and the mount point are looked for on one line *)
raid_mounted_sameline(device, mp, df) == Contains(device \o <<" ">> \o mp, df)

raid_mounted(device, mp, df) == Contains(device, df) /\ Contains(mp, df)

(* self.fail[func] = args on an insertion-ordered dict *)
DictSet(d, f, a) ==
    IF \E i \in DOMAIN d : d[i].f = f
    THEN [i \in DOMAIN d |-> IF d[i].f = f THEN [f |-> f, a |-> a] ELSE d[i]]
    ELSE Append(d, [f |-> f, a |-> a])

NewTest(name, func, args) ==
    [name |-> name, func |-> func, args |-> args, email |-> TRUE,
     fail |-> <<>>, success |-> <<>>]

add_fail_action(t, f, a) == [t EXCEPT !.fail = DictSet(@, f, a)]

add_success_action(t, f, a) == [t EXCEPT !.success = DictSet(@, f, a)]

AlertMessage(name) == name \o " test failed"

(* variant: the email flag is not consulted *)
AlertDue_anyfail(t, r) == ~r

(* Test.run, lines 54-56: the alert joins the fail actions *)
AlertDue(t, r) == ~r /\ t.email

(* variant: the alert is put in front of the registered fail actions *)
WithAlert_first(t, r) ==
    IF AlertDue(t, r)
    THEN [t EXCEPT !.fail = <<[f |-> "email_alert", a |-> <<AlertMessage(t.name)>>]>> \o @]
    ELSE t

WithAlert(t, r) ==
    IF AlertDue(t, r) THEN add_fail_action(t, "email_alert", <<AlertMessage(t.name)>>) ELSE t

(* variant: the success loop is not under the else *)
Selected_noelse(t, r) == IF r THEN t.success ELSE t.fail \o t.success

(* Test.run, lines 58 and 62: the action set that is iterated *)
Selected(t, r) == IF r THEN t.success ELSE t.fail

(* variant: the loop goes on after a failing check *)
RunnerExits_never(r) == FALSE

(* run_tests, line 80 *)
RunnerExits(r) == ~r

(* variant: the guard returns 0 *)
MainReturn_zero(tripped) == 0

(* main, lines 231 and 263: the value returned to sys.exit *)
MainReturn(tripped) == IF tripped THEN 1 ELSE 0

Reg(set, f, a) == [set |-> set, f |-> f, a |-> a]

(* variant: the remount is registered as a success action as well *)
MainTest_alsoSuccess(name, func, args) ==
    add_success_action(add_fail_action(NewTest(name, func, args), "mount_raid", <<raid, mount_point>>),
                       "mount_raid", <<raid, mount_point>>)

(* The tests of main, lines 235-257 *)
MainTest(name, func, args) == add_fail_action(NewTest(name, func, args), "mount_raid", <<raid, mount_point>>)

MainTests ==
    << MainTest("Ping", "ping_test", <<host>>),
       MainTest("Server available", "server_available", <<host>>),
       MainTest("Share available", "share_available", <<host, share>>),
       MainTest("Share mounted", "share_mounted", <<host, share, mount_point>>),
       MainTest("Share readable", "share_readable", <<test_fp>>),
       MainTest("Share writeable", "share_writeable", <<test_fp>>) >>

----------------------------------------------------------------------------
(* Trace events *)
Ev(kind, test, what, arg, set, ok) ==
    [kind |-> kind, test |-> test, what |-> what, arg |-> arg, set |-> set, ok |-> ok]

(* a command run: limit is "timeout5" or "nolimit", ok is whether it returned on
   its own, out is the stdout handed to the caller *)
CmdEv(test, what, limit, ok, out) == Ev("cmd", test, what, out, limit, ok)

LogEntry(error, msg) == [status |-> IF error THEN "error" ELSE "info", msg |-> msg]

(* log(), lines 99-112: the entry is formatted, the file write may fail *)
Log(entries, wrote) ==
    /\ logged' = logged \o entries
    /\ lastWritten' = wrote[Len(wrote)]
    /\ stderr' = (stderr \/ \E i \in DOMAIN wrote : ~wrote[i])

(* variant: the write error is not caught and ends the process *)
AfterLog_uncaught(wrote, target) ==
    IF \E i \in DOMAIN wrote : ~wrote[i] THEN "exited" ELSE target

(* log(), lines 108-112: a failing write is caught and reported, and the   *)
(* caller goes on to where it was going                                    *)
AfterLog(wrote, target) == target

----------------------------------------------------------------------------
Init ==
    /\ pc = "init"
    /\ entry = "none"
    /\ runner = <<>>
    /\ registered = <<>>
    /\ calls = 0
    /\ idx = 0
    /\ ret = TRUE
    /\ queue = <<>>
    /\ call = <<>>
    /\ exitCode = 0
    /\ aborted = FALSE
    /\ mtab \in InitMtabs
    /\ startMtab = mtab
    /\ probe \in [mode : ProbeModes, content : {"initial"}]
    /\ logged = <<>>
    /\ lastWritten = TRUE
    /\ stderr = FALSE
    /\ trace = <<>>

(* main, lines 210-257: up to the call of run_tests *)
Main ==
    /\ pc = "init" /\ entry = "none"
    /\ \E timedOut \in BOOLEAN, w1 \in BOOLEAN, w2 \in BOOLEAN :
        LET df == get_stdout(DfOutput(mtab), timedOut)
            tripped == raid_mounted(raid, mount_point, df)
        IN  /\ entry' = "main"
            /\ trace' = trace \o <<CmdEv(0, "df", "timeout5", ~timedOut, df),
                                    Ev("guard", 0, "raid_mounted", df, "-", tripped)>>
            /\ IF tripped
               THEN /\ Log(<<LogEntry(FALSE, <<"starting">>),
                             LogEntry(TRUE, <<"backup already mounted, exiting">>)>>, <<w1, w2>>)
                    /\ pc' = AfterLog(<<w1, w2>>, "exited")
                    /\ exitCode' = MainReturn(TRUE)
                    /\ UNCHANGED <<runner, registered, idx>>
               ELSE /\ Log(<<LogEntry(FALSE, <<"starting">>)>>, <<w1>>)
                    /\ runner' = MainTests
                    /\ registered' = [i \in DOMAIN MainTests |->
                                         <<Reg("fail", "mount_raid", <<raid, mount_point>>)>>]
                    /\ pc' = AfterLog(<<w1>>, "run")
                    /\ idx' = 1
                    /\ UNCHANGED exitCode
    /\ UNCHANGED <<calls, ret, queue, call, aborted, mtab, startMtab, probe>>


----------------------------------------------------------------------------
(* A caller of the Test / TestRunner API, lines 19-28: make a Test, add    *)
(* its actions, add it to the runner, then call run_tests.                 *)

NameOf(n) == "T" \o ToString(n)

ApiPreds == { <<"ping_test", <<host>>>> }

ApiActions ==
    { <<"log", <<"note a">>>>, <<"log", <<"note b">>>>, <<"email_alert", <<"custom alert">>>> }

ApiConfig == pc \in {"init", "api"} /\ entry \in {"none", "api"} /\ calls < MaxCalls

ApiStep ==
    /\ pc' = "api"
    /\ entry' = "api"
    /\ calls' = calls + 1
    /\ UNCHANGED <<idx, ret, queue, call, exitCode, aborted, mtab, startMtab, probe,
                   logged, lastWritten, stderr, trace>>

(* Test.__init__, lines 31-39, and TestRunner.add_test, lines 73-74 *)
ApiAddTest ==
    /\ ApiConfig
    /\ \E p \in ApiPreds :
        runner' = Append(runner, NewTest(NameOf(Len(runner) + 1), p[1], p[2]))
    /\ registered' = Append(registered, <<>>)
    /\ ApiStep

(* the caller clears the email attribute of the Test, line 36 *)
ApiClearEmail ==
    /\ ApiConfig
    /\ runner # <<>>
    /\ runner[Len(runner)].email
    /\ runner' = [runner EXCEPT ![Len(runner)].email = FALSE]
    /\ UNCHANGED registered
    /\ ApiStep

(* Test.add_fail_action, lines 42-43 *)
ApiAddFailAction ==
    /\ ApiConfig
    /\ runner # <<>>
    /\ \E x \in ApiActions :
        /\ runner' = [runner EXCEPT ![Len(runner)] = add_fail_action(@, x[1], x[2])]
        /\ registered' = [registered EXCEPT ![Len(runner)] = Append(@, Reg("fail", x[1], x[2]))]
    /\ ApiStep

(* Test.add_success_action, lines 46-47 *)
ApiAddSuccessAction ==
    /\ ApiConfig
    /\ runner # <<>>
    /\ \E x \in ApiActions :
        /\ runner' = [runner EXCEPT ![Len(runner)] = add_success_action(@, x[1], x[2])]
        /\ registered' = [registered EXCEPT ![Len(runner)] = Append(@, Reg("success", x[1], x[2]))]
    /\ ApiStep

(* the caller calls run_tests, line 77 *)
ApiRunTests ==
    /\ pc = "api"
    /\ pc' = "run"
    /\ idx' = 1
    /\ UNCHANGED <<entry, runner, registered, calls, ret, queue, call, exitCode, aborted, mtab, startMtab,
                   probe, logged, lastWritten, stderr, trace>>

----------------------------------------------------------------------------
(* Test.run, lines 50-65 *)

InRun == pc = "run" /\ idx <= Len(runner)

Cur == runner[idx]

(* lines 52-58/62, once the predicate has returned r *)
TestRunStart(t, r, evs) ==
    /\ \E w \in BOOLEAN :
        /\ Log(<<LogEntry(~r, <<"test", t.name, IF r THEN "passed" ELSE "failed">>)>>, <<w>>)
        /\ pc' = AfterLog(<<w>>, "acts")
    /\ runner' = [runner EXCEPT ![idx] = WithAlert(t, r)]
    /\ registered' = IF AlertDue(t, r)
                     THEN [registered EXCEPT ![idx] =
                               Append(@, Reg("fail", "email_alert", <<AlertMessage(t.name)>>))]
                     ELSE registered
    /\ queue' = Selected(WithAlert(t, r), r)
    /\ ret' = r
    /\ trace' = trace \o evs \o <<Ev("pred", idx, t.func, t.args, "-", r)>>
    /\ UNCHANGED <<entry, calls, idx, call, exitCode, aborted, mtab, startMtab>>

(* an external command that never returns *)
Blocked(evs) ==
    /\ pc' = "blocked"
    /\ trace' = trace \o evs
    /\ UNCHANGED <<entry, runner, registered, calls, idx, ret, queue, call, exitCode, aborted,
                   mtab, startMtab, probe, logged, lastWritten, stderr>>

RunPing ==
    /\ InRun /\ Cur.func = "ping_test"
    /\ \E o \in OsSystemOutcomes :
        IF o.done
        THEN /\ TestRunStart(Cur, ping_test(o.st), <<CmdEv(idx, "ping", "nolimit", TRUE, <<>>)>>)
             /\ UNCHANGED probe
        ELSE Blocked(<<CmdEv(idx, "ping", "nolimit", FALSE, <<>>)>>)

RunServerAvailable ==
    /\ InRun /\ Cur.func = "server_available"
    /\ \E out \in RpcOutputs, timedOut \in BOOLEAN :
        LET rpc_output == get_stdout(out, timedOut)
        IN  TestRunStart(Cur, server_available(rpc_output),
                         <<CmdEv(idx, "rpcinfo", "timeout5", ~timedOut, rpc_output)>>)
    /\ UNCHANGED probe

RunShareAvailable ==
    /\ InRun /\ Cur.func = "share_available"
    /\ \E out \in ShowmountOutputs, timedOut \in BOOLEAN :
        LET showmount_output == get_stdout(out, timedOut)
        IN  TestRunStart(Cur, share_available(Cur.args[1], Cur.args[2], showmount_output),
                         <<CmdEv(idx, "showmount", "timeout5", ~timedOut, showmount_output)>>)
    /\ UNCHANGED probe

RunShareMounted ==
    /\ InRun /\ Cur.func = "share_mounted"
    /\ \E timedOut \in BOOLEAN :
        LET df_output == get_stdout(DfOutput(mtab), timedOut)
        IN  TestRunStart(Cur, share_mounted(Cur.args[1], Cur.args[2], Cur.args[3], df_output),
                         <<CmdEv(idx, "df", "timeout5", ~timedOut, df_output)>>)
    /\ UNCHANGED probe

RunShareReadable ==
    /\ InRun /\ Cur.func = "share_readable"
    /\ TestRunStart(Cur, share_readable(probe.mode), <<>>)
    /\ UNCHANGED probe

(* share_writeable, lines 156-162: open(test_fp, "w") and write a timestamp *)
RunShareWriteable ==
    /\ InRun /\ Cur.func = "share_writeable"
    /\ \E created \in BOOLEAN :
        LET ok == share_writeable(probe.mode, created)
        IN  /\ TestRunStart(Cur, ok, <<>>)
            /\ probe' = ProbeAfterWrite(probe, ok)

(* variant: umount defaults to False *)
UmountFlag_off(a) == IF Len(a) >= 3 THEN a[3] ELSE FALSE

(* mount_raid, line 195: the umount parameter, True by default *)
UmountFlag(a) == IF Len(a) >= 3 THEN a[3] ELSE TRUE

ActEv(e) == Ev("act", idx, e.f, e.a, IF ret THEN "success" ELSE "fail", TRUE)

(* lines 59 / 63: the action is logged, then called *)
ExecLog(e, target) ==
    \E w \in BOOLEAN :
        /\ Log(<<LogEntry(FALSE, <<"executing", e.f, e.a>>)>>, <<w>>)
        /\ pc' = AfterLog(<<w>>, target)

(* lines 59-60 / 63-64 for mount_raid: the call is entered, lines 195-196 *)
ExecMountRaid ==
    /\ pc = "acts" /\ queue # <<>> /\ Head(queue).f = "mount_raid"
    /\ ExecLog(Head(queue), IF UmountFlag(Head(queue).a) THEN "umount" ELSE "mount")
    /\ call' = [dev |-> Head(queue).a[1], mp |-> Head(queue).a[2]]
    /\ queue' = Tail(queue)
    /\ trace' = Append(trace, ActEv(Head(queue)))
    /\ UNCHANGED <<entry, runner, registered, calls, idx, ret, exitCode, aborted, mtab, startMtab, probe>>

(* mount_raid, line 197 *)
Umount ==
    /\ pc = "umount"
    /\ \E o \in OsSystemOutcomes :
        IF o.done
        THEN /\ mtab' = IF o.st = 0 THEN UmountTab(mtab, call.mp) ELSE mtab
             /\ pc' = "mount"
             /\ trace' = Append(trace, CmdEv(idx, "umount", "nolimit", TRUE, <<>>))
             /\ UNCHANGED <<entry, runner, registered, calls, idx, ret, queue, call, exitCode, aborted,
                            startMtab, probe, logged, lastWritten, stderr>>
        ELSE Blocked(<<CmdEv(idx, "umount", "nolimit", FALSE, <<>>)>>)

(* mount_raid, line 199 *)
Mount ==
    /\ pc = "mount"
    /\ \E o \in OsSystemOutcomes :
        IF o.done
        THEN /\ mtab' = IF o.st = 0 THEN MountTab(mtab, call.dev, call.mp) ELSE mtab
             /\ pc' = "acts"
             /\ trace' = Append(trace, CmdEv(idx, "mount", "nolimit", TRUE, <<>>))
             /\ UNCHANGED <<entry, runner, registered, calls, idx, ret, queue, call, exitCode, aborted,
                            startMtab, probe, logged, lastWritten, stderr>>
        ELSE Blocked(<<CmdEv(idx, "mount", "nolimit", FALSE, <<>>)>>)

(* variant: the delivery error is caught inside email_alert *)
MailReturns_caught(delivered) == TRUE

(* email_alert, lines 188-191: the call returns only when smtplib did not  *)
(* raise; there is no try/except around the delivery.                      *)
MailReturns(delivered) == delivered

(* lines 59-60 / 63-64 for email_alert, lines 166-191: delivered, or smtplib  *)
(* raises; nothing catches the exception, so the interpreter ends with      *)
(* status 1 and a traceback.                                                *)
ExecEmailAlert ==
    /\ pc = "acts" /\ queue # <<>> /\ Head(queue).f = "email_alert"
    /\ \E delivered \in BOOLEAN :
        /\ ExecLog(Head(queue), IF MailReturns(delivered) THEN "acts" ELSE "exited")
        /\ trace' = trace \o <<ActEv(Head(queue)),
                               Ev("mail", idx, "send", Head(queue).a, "-", delivered)>>
        /\ IF MailReturns(delivered)
           THEN /\ queue' = Tail(queue)
                /\ UNCHANGED <<exitCode, aborted>>
           ELSE /\ exitCode' = 1
                /\ aborted' = TRUE
                /\ UNCHANGED queue
    /\ UNCHANGED <<entry, runner, registered, calls, idx, ret, call, mtab, startMtab, probe>>

(* lines 59-60 / 63-64 for log, lines 99-112, registered as an action *)
ExecLogAction ==
    /\ pc = "acts" /\ queue # <<>> /\ Head(queue).f = "log"
    /\ \E w1 \in BOOLEAN, w2 \in BOOLEAN :
        /\ Log(<<LogEntry(FALSE, <<"executing", Head(queue).f, Head(queue).a>>),
                 LogEntry(FALSE, Head(queue).a)>>, <<w1, w2>>)
        /\ pc' = AfterLog(<<w1, w2>>, pc)
    /\ queue' = Tail(queue)
    /\ trace' = Append(trace, ActEv(Head(queue)))
    /\ UNCHANGED <<entry, runner, registered, calls, idx, ret, call, exitCode, aborted, mtab, startMtab, probe>>

(* Test.run returns, line 65; run_tests, lines 79-81 *)
TestReturn ==
    /\ pc = "acts" /\ queue = <<>>
    /\ IF RunnerExits(ret)
       THEN /\ pc' = "exited"
            /\ exitCode' = 1
            /\ UNCHANGED idx
       ELSE /\ pc' = "run"
            /\ idx' = idx + 1
            /\ UNCHANGED exitCode
    /\ UNCHANGED <<entry, runner, registered, calls, ret, queue, call, aborted, mtab, startMtab, probe,
                   logged, lastWritten, stderr, trace>>

(* run_tests returns to main, lines 259-263 *)
MainFinish ==
    /\ pc = "run" /\ idx > Len(runner) /\ entry = "main"
    /\ \E w \in BOOLEAN :
        /\ Log(<<LogEntry(FALSE, <<"finished, all tests passed">>)>>, <<w>>)
        /\ pc' = AfterLog(<<w>>, "exited")
    /\ exitCode' = MainReturn(FALSE)
    /\ UNCHANGED <<entry, runner, registered, calls, idx, ret, queue, call, aborted, mtab, startMtab, probe, trace>>

(* run_tests returns to the api caller *)
ApiFinish ==
    /\ pc = "run" /\ idx > Len(runner) /\ entry = "api"
    /\ pc' = "returned"
    /\ UNCHANGED <<entry, runner, registered, calls, idx, ret, queue, call, exitCode, aborted, mtab, startMtab,
                   probe, logged, lastWritten, stderr, trace>>

Next ==
    \/ Main
    \/ ApiAddTest
    \/ ApiClearEmail
    \/ ApiAddFailAction
    \/ ApiAddSuccessAction
    \/ ApiRunTests
    \/ RunPing
    \/ RunServerAvailable
    \/ RunShareAvailable
    \/ RunShareMounted
    \/ RunShareReadable
    \/ RunShareWriteable
    \/ ExecMountRaid
    \/ Umount
    \/ Mount
    \/ ExecEmailAlert
    \/ ExecLogAction
    \/ TestReturn
    \/ MainFinish
    \/ ApiFinish

Spec == Init /\ [][Next]_vars

----------------------------------------------------------------------------
(* A caller of the probe predicates alone: share_readable, share_writeable *)
(* and share_available are called directly, any number of times, in any    *)
(* order.                                                                  *)

Shares == { <<"logs">>, <<"data">> }

ProbeCall == pc \in {"init", "probing"} /\ entry \in {"none", "probes"} /\ calls < MaxProbes

ProbeStep(evs) ==
    /\ pc' = "probing"
    /\ entry' = "probes"
    /\ calls' = calls + 1
    /\ trace' = trace \o evs
    /\ UNCHANGED <<runner, registered, idx, ret, queue, call, exitCode, aborted, mtab, startMtab,
                   logged, lastWritten, stderr>>

(* share_readable(test_fp), lines 145-151 *)
CallShareReadable ==
    /\ ProbeCall
    /\ ProbeStep(<<Ev("pred", calls + 1, "share_readable", <<test_fp>>, "-",
                     share_readable(probe.mode))>>)
    /\ UNCHANGED probe

(* share_writeable(test_fp), lines 156-162 *)
CallShareWriteable ==
    /\ ProbeCall
    /\ \E created \in BOOLEAN :
        LET ok == share_writeable(probe.mode, created)
        IN  /\ ProbeStep(<<Ev("pred", calls + 1, "share_writeable", <<test_fp>>, "-", ok)>>)
            /\ probe' = ProbeAfterWrite(probe, ok)

(* share_available(host, share), lines 131-133 *)
CallShareAvailable ==
    /\ ProbeCall
    /\ \E s \in Shares, out \in ShowmountOutputs, timedOut \in BOOLEAN :
        LET showmount_output == get_stdout(out, timedOut)
        IN  ProbeStep(<<CmdEv(calls + 1, "showmount", "timeout5", ~timedOut, showmount_output),
                        Ev("pred", calls + 1, "share_available", <<host, s>>, "-",
                           share_available(host, s, showmount_output))>>)
    /\ UNCHANGED probe

ProbeNext ==
    \/ CallShareReadable
    \/ CallShareWriteable
    \/ CallShareAvailable

ProbeSpec == Init /\ [][ProbeNext]_vars

----------------------------------------------------------------------------
(* Reading the trace *)

IsPrefix(a, b) == Len(a) <= Len(b) /\ SubSeq(b, 1, Len(a)) = a

PredEvs == SelectSeq(trace, LAMBDA e : e.kind = "pred")

Evaluated(i) == \E p \in DOMAIN trace : trace[p].kind = "pred" /\ trace[p].test = i

Outcome(i) == trace[CHOOSE p \in DOMAIN trace : trace[p].kind = "pred" /\ trace[p].test = i].ok

ActEvs(i) == SelectSeq(trace, LAMBDA e : e.kind = "act" /\ e.test = i)

(* the actions executed for check i, in order, as dict entries *)
ActsOf(i) == [k \in DOMAIN ActEvs(i) |-> [f |-> ActEvs(i)[k].what, a |-> ActEvs(i)[k].arg]]

Failed(i) == Evaluated(i) /\ ~Outcome(i)

(* the action loop of Test.run of check i has run to its end *)
Completed(i) ==
    \/ idx > i
    \/ idx = i /\ pc = "acts" /\ queue = <<>>
    \/ idx = i /\ pc = "exited" /\ ~aborted

GuardTripped == \E p \in DOMAIN trace : trace[p].kind = "guard" /\ trace[p].ok

----------------------------------------------------------------------------
(* C1: fail-fast.  The k-th predicate evaluated is the predicate of the    *)
(* k-th check of the list, events of a later check never precede events of *)
(* an earlier one, and once the predicate of check i has returned          *)
(* unhealthy nothing (predicate, fail action, success action, command,     *)
(* mail) of any check j > i is ever executed.                              *)
C1_FailFast ==
    /\ \A k \in DOMAIN PredEvs :
        /\ k \in DOMAIN runner
        /\ PredEvs[k].test = k
        /\ PredEvs[k].what = runner[k].func
    /\ \A p, q \in DOMAIN trace : p < q => trace[p].test <= trace[q].test
    /\ \A p \in DOMAIN trace :
        (trace[p].kind = "pred" /\ ~trace[p].ok)
            => \A q \in DOMAIN trace : trace[q].test <= trace[p].test

C1_Witness ==
    /\ pc = "exited"
    /\ \E p \in DOMAIN trace :
        /\ trace[p].kind = "pred" /\ ~trace[p].ok
        /\ trace[p].test >= 2
        /\ trace[p].test < Len(runner)

(* C2: an invocation of main that ends has exit status 0 exactly when the  *)
(* guard did not trip and all six predicates passed, and exit status 1     *)
(* exactly when the guard tripped or some check failed; in the latter case *)
(* every fail action of the failing check has been run before the exit.    *)
C2_ExitStatus ==
    (entry = "main" /\ pc = "exited") =>
        /\ exitCode \in {0, 1}
        /\ (exitCode = 0) <=>
              (~GuardTripped /\ \A i \in DOMAIN MainTests : Evaluated(i) /\ Outcome(i))
        /\ (exitCode = 1) <=> (GuardTripped \/ \E i \in DOMAIN MainTests : Failed(i))
        /\ \A i \in DOMAIN runner :
              Failed(i) =>
                  \A k \in DOMAIN runner[i].fail :
                      \E p \in DOMAIN trace :
                          /\ trace[p].kind = "act" /\ trace[p].test = i
                          /\ trace[p].what = runner[i].fail[k].f
                          /\ trace[p].arg = runner[i].fail[k].a

C2_Witness ==
    /\ entry = "main" /\ pc = "exited" /\ exitCode = 1 /\ ~aborted
    /\ \E i \in DOMAIN MainTests : i >= 2 /\ Failed(i)

(* C3: when the output of df read at the start of main contains both the   *)
(* fallback device string and the mount point string, the process makes    *)
(* exactly one error log entry and exits with status 1; no predicate is    *)
(* evaluated, no action runs, no other command and no mail is issued.      *)
C3_PreflightGuard ==
    \A p \in DOMAIN trace :
        (/\ trace[p].kind = "guard"
         /\ Contains(raid, trace[p].arg)
         /\ Contains(mount_point, trace[p].arg))
        => /\ pc = "exited" /\ exitCode = 1 /\ ~aborted
           /\ Len(trace) = p
           /\ \A q \in DOMAIN trace : trace[q].kind \in {"cmd", "guard"} /\ trace[q].test = 0
           /\ Cardinality({k \in DOMAIN logged : logged[k].status = "error"}) = 1
           /\ runner = <<>>

C3_Witness ==
    /\ pc = "exited"
    /\ \E p \in DOMAIN trace :
        /\ trace[p].kind = "guard"
        /\ Contains(raid, trace[p].arg)
        /\ Contains(mount_point, trace[p].arg)
        /\ ~Contains(raid \o <<" ">> \o mount_point, trace[p].arg)

(* C4: the fail-action set of a check holds the alert action (email_alert  *)
(* with the message naming the check) exactly when the predicate of the    *)
(* check has been evaluated, failed, and the email flag of the check is    *)
(* set; the success set never holds it.                                    *)
HasAlert(d, name) ==
    \E k \in DOMAIN d : d[k].f = "email_alert" /\ d[k].a = <<AlertMessage(name)>>

C4_AlertIff ==
    \A i \in DOMAIN runner :
        /\ HasAlert(runner[i].fail, runner[i].name) <=> (Failed(i) /\ runner[i].email)
        /\ ~HasAlert(runner[i].success, runner[i].name)

C4_Witness ==
    \E i \in DOMAIN runner :
        /\ Failed(i) /\ ~runner[i].email /\ Completed(i)
        /\ runner[i].fail # <<>>

(* C5: for every check whose predicate was evaluated, the actions executed *)
(* are actions of one set only: a prefix of the fail set when the          *)
(* predicate returned unhealthy, of the success set when it returned       *)
(* healthy, and the whole of that set once the action loop has ended; a    *)
(* check whose predicate was not evaluated executes nothing.               *)
C5_ExactlyOneSet ==
    \A i \in DOMAIN runner :
        LET sel == IF Outcome(i) THEN runner[i].success ELSE runner[i].fail
        IN  IF Evaluated(i)
            THEN /\ IsPrefix(ActsOf(i), sel)
                 /\ Completed(i) => ActsOf(i) = sel
            ELSE ActsOf(i) = <<>>

C5_Witness ==
    \E i \in DOMAIN runner :
        /\ Evaluated(i) /\ Outcome(i) /\ Completed(i)
        /\ runner[i].success # <<>> /\ runner[i].fail # <<>>
        /\ ActsOf(i) = runner[i].success

----------------------------------------------------------------------------
Count(P(_)) == Cardinality({p \in DOMAIN trace : P(trace[p])})

IsCmd(e, what) == e.kind = "cmd" /\ e.what = what

RegList(i, set) ==
    LET rs == SelectSeq(registered[i], LAMBDA x : x.set = set)
    IN  [k \in DOMAIN rs |-> [f |-> rs[k].f, a |-> rs[k].a]]

(* C6: once the action loop of an evaluated check has ended, the actions   *)
(* executed are exactly the registrations made on the selected set (the    *)
(* alert registration of Test.run included), one execution per             *)
(* registration, in registration order, each with the arguments of its     *)
(* registration.                                                           *)
C6_EveryRegistrationInOrder ==
    \A i \in DOMAIN runner :
        (Evaluated(i) /\ Completed(i))
            => ActsOf(i) = RegList(i, IF Outcome(i) THEN "success" ELSE "fail")

(* C7 as claimed: an invocation of main that ends with first failing check *)
(* k issued exactly one umount followed by exactly one mount and SENT      *)
(* exactly one alert email naming check k; nothing of the kind for the     *)
(* checks before k, and no check after k ran.                              *)
C7_OneEmailSent ==
    \A k \in DOMAIN runner :
        (entry = "main" /\ pc = "exited" /\ Failed(k)) =>
            /\ Count(LAMBDA e : IsCmd(e, "umount")) = 1
            /\ Count(LAMBDA e : IsCmd(e, "mount")) = 1
            /\ Count(LAMBDA e : e.kind = "mail" /\ e.ok) = 1
            /\ \A p \in DOMAIN trace :
                  (trace[p].kind = "mail" /\ trace[p].ok)
                      => trace[p].arg = <<AlertMessage(runner[k].name)>>
            /\ \A p \in DOMAIN trace :
                  (trace[p].kind \in {"mail", "act"} \/ IsCmd(trace[p], "umount")
                       \/ IsCmd(trace[p], "mount")) => trace[p].test = k
            /\ \A p \in DOMAIN trace : trace[p].test <= k

(* C7 amended: an invocation of main that ends with first failing check k  *)
(* issued exactly one umount of the mount point and then exactly one mount *)
(* of the fallback device, and ATTEMPTED exactly one alert email, naming   *)
(* check k, after them; the email is sent unless its delivery raised (then *)
(* none is sent and the process aborted); nothing of the kind for the      *)
(* checks before k, and no check after k ran.                              *)
C7_RemediationOnce ==
    \A k \in DOMAIN runner :
        (entry = "main" /\ pc = "exited" /\ Failed(k)) =>
            /\ Count(LAMBDA e : IsCmd(e, "umount")) = 1
            /\ Count(LAMBDA e : IsCmd(e, "mount")) = 1
            /\ Count(LAMBDA e : e.kind = "mail") = 1
            /\ \E pu, pm, pe \in DOMAIN trace :
                  /\ pu < pm /\ pm < pe
                  /\ IsCmd(trace[pu], "umount") /\ IsCmd(trace[pm], "mount")
                  /\ trace[pe].kind = "mail"
                  /\ trace[pe].arg = <<AlertMessage(runner[k].name)>>
                  /\ trace[pe].ok <=> ~aborted
            /\ ActsOf(k) = << [f |-> "mount_raid", a |-> <<raid, mount_point>>],
                              [f |-> "email_alert", a |-> <<AlertMessage(runner[k].name)>>] >>
            /\ \A p \in DOMAIN trace :
                  (trace[p].kind \in {"mail", "act"} \/ IsCmd(trace[p], "umount")
                       \/ IsCmd(trace[p], "mount")) => trace[p].test = k
            /\ \A p \in DOMAIN trace : trace[p].test <= k

C7_Witness ==
    /\ entry = "main" /\ pc = "exited" /\ ~aborted
    /\ Len(runner) >= 5 /\ Failed(5)
    /\ \E p \in DOMAIN trace : trace[p].kind = "pred" /\ trace[p].test = 4 /\ trace[p].ok

----------------------------------------------------------------------------
AllPassed == \A i \in DOMAIN MainTests : Evaluated(i) /\ Outcome(i)

Finished == LogEntry(FALSE, <<"finished, all tests passed">>)

NoRemediation ==
    \A p \in DOMAIN trace :
        /\ trace[p].kind \notin {"mail", "act"}
        /\ ~IsCmd(trace[p], "umount")
        /\ ~IsCmd(trace[p], "mount")

(* C8 as claimed: an invocation of main in which the guard did not trip    *)
(* and all six predicates passed sends no email, issues no mount or umount *)
(* command, and once it has ended the last entry WRITTEN to the log file   *)
(* is "finished, all tests passed" and the exit status is 0.               *)
C8_LastEntryWritten ==
    (entry = "main" /\ ~GuardTripped /\ AllPassed) =>
        /\ NoRemediation
        /\ pc = "exited" =>
              /\ exitCode = 0
              /\ logged[Len(logged)] = Finished
              /\ lastWritten

(* C8 amended: an invocation of main in which the guard did not trip and   *)
(* all six predicates passed sends no email, issues no mount or umount     *)
(* command and runs no action; once it has ended the exit status is 0 and  *)
(* the last log() call made is the info entry "finished, all tests         *)
(* passed", made exactly once (the write of that entry to the log file is  *)
(* best effort and may have failed).                                       *)
C8_AllPass ==
    (entry = "main" /\ ~GuardTripped /\ AllPassed) =>
        /\ NoRemediation
        /\ ~aborted
        /\ pc = "exited" =>
              /\ exitCode = 0
              /\ logged[Len(logged)] = Finished
              /\ Cardinality({k \in DOMAIN logged : logged[k] = Finished}) = 1

C8_Witness ==
    /\ entry = "main" /\ ~GuardTripped /\ AllPassed
    /\ pc = "exited" /\ exitCode = 0 /\ ~lastWritten

(* C9: a probe command run through get_stdout for a check (rpcinfo,        *)
(* showmount, df) that exceeds its timeout hands the empty output to the   *)
(* predicate, the predicate fails as for any output lacking the expected   *)
(* substring, the fail actions of the check run, and the process, when it  *)
(* ends, ends with exit status 1; it never aborts at the probe.            *)
C9_TimeoutIsFailure ==
    \A p \in DOMAIN trace :
        (/\ trace[p].kind = "cmd" /\ trace[p].set = "timeout5"
         /\ trace[p].test >= 1 /\ ~trace[p].ok)
        => LET i == trace[p].test
           IN  /\ trace[p].arg = <<>>
               /\ p + 1 \in DOMAIN trace
               /\ trace[p + 1].kind = "pred" /\ trace[p + 1].test = i
               /\ ~trace[p + 1].ok
               /\ \A q \in DOMAIN trace : trace[q].test <= i
               /\ IsPrefix(ActsOf(i), runner[i].fail)
               /\ pc \in {"exited", "returned"} =>
                     /\ pc = "exited" /\ exitCode = 1
                     /\ ActsOf(i) = runner[i].fail
                     /\ aborted => trace[Len(trace)].kind = "mail"

C9_Witness ==
    /\ entry = "main" /\ pc = "exited" /\ exitCode = 1 /\ ~aborted
    /\ \E p \in DOMAIN trace :
        /\ trace[p].kind = "cmd" /\ trace[p].what = "showmount" /\ ~trace[p].ok

(* C10: every external command run is under the caller's timeout, and a    *)
(* command that does not return on its own never leaves the process        *)
(* waiting for it.                                                         *)
C10_EveryCommandBounded ==
    /\ \A p \in DOMAIN trace :
          (trace[p].kind = "cmd" /\ ~trace[p].ok) => trace[p].set = "timeout5"
    /\ pc # "blocked"

----------------------------------------------------------------------------
(* C11: when the delivery of the alert email of a failing check raises,    *)
(* the process ends there by the uncaught exception (status 1): the failed *)
(* delivery is the last thing that ran, the actions of the check that come *)
(* after the alert in its set are left unexecuted, no later check is       *)
(* evaluated,                                                              *)
(* and "finished, all tests passed" is not logged.  The process aborts in  *)
(* no other way.                                                           *)
C11_MailErrorAborts ==
    /\ \A p \in DOMAIN trace :
          (trace[p].kind = "mail" /\ ~trace[p].ok) =>
              /\ aborted /\ pc = "exited" /\ exitCode = 1
              /\ p = Len(trace)
              /\ idx = trace[p].test /\ Evaluated(idx)
              /\ queue # <<>> /\ Head(queue).f = "email_alert"
              /\ ActsOf(idx) \o Tail(queue)
                    = (IF Outcome(idx) THEN runner[idx].success ELSE runner[idx].fail)
              /\ \A q \in DOMAIN trace : trace[q].test <= idx
              /\ \A k \in DOMAIN logged : logged[k] # Finished
    /\ aborted => (trace # <<>> /\ trace[Len(trace)].kind = "mail" /\ ~trace[Len(trace)].ok)

C11_Witness ==
    /\ aborted /\ pc = "exited" /\ Failed(idx)
    /\ Len(queue) >= 2
    /\ idx < Len(runner)

----------------------------------------------------------------------------
LogCount(tag) == Cardinality({k \in DOMAIN logged : logged[k].msg[1] = tag})

(* C12: whichever log writes fail, the run is the one the predicate and    *)
(* delivery outcomes determine, as when every write succeeds: checks are   *)
(* evaluated in list order, the actions executed are those of the selected *)
(* set, one log call is made per predicate evaluated and per action run,   *)
(* the process ends only at the guard (1), after the fail actions of a     *)
(* failing check (1), after the last check passed (0) or by a delivery     *)
(* error, and a write error itself never ends or aborts it.                *)
C12_LogBestEffort ==
    /\ aborted => (trace # <<>> /\ trace[Len(trace)].kind = "mail" /\ ~trace[Len(trace)].ok)
    /\ (pc = "exited" /\ ~aborted) =>
          \/ exitCode = 1 /\ entry = "main" /\ GuardTripped
          \/ /\ exitCode = 1 /\ idx \in DOMAIN runner /\ Failed(idx)
             /\ ActsOf(idx) = runner[idx].fail
          \/ /\ exitCode = 0 /\ entry = "main" /\ ~GuardTripped /\ AllPassed
             /\ logged[Len(logged)] = Finished
    /\ pc = "returned" => \A i \in DOMAIN runner : Evaluated(i) /\ Outcome(i)
    /\ \A k \in DOMAIN PredEvs : PredEvs[k].test = k
    /\ \A i \in DOMAIN runner :
          Evaluated(i) =>
              IsPrefix(ActsOf(i), IF Outcome(i) THEN runner[i].success ELSE runner[i].fail)
    /\ LogCount("test") = Len(PredEvs)
    /\ LogCount("executing") = Count(LAMBDA e : e.kind = "act")
    /\ entry = "main" => LogCount("starting") = 1

C12_Witness ==
    /\ entry = "main" /\ pc = "exited" /\ ~aborted /\ exitCode = 1
    /\ stderr /\ lastWritten
    /\ \E i \in DOMAIN runner : i >= 2 /\ Failed(i)

----------------------------------------------------------------------------
(* the share path that showmount lists for a share name *)
SharePath(s) == <<"/">> \o s

(* C13: share_available(host, share) passes exactly when the export list   *)
(* handed to it contains the path of that share.                           *)
C13_ShareAvailableIff ==
    \A p \in DOMAIN trace :
        (trace[p].kind = "pred" /\ trace[p].what = "share_available") =>
            (trace[p].ok <=> Contains(SharePath(trace[p].arg[2]), trace[p - 1].arg))

(* C14: on a healthy share (the probe file exists, readable and            *)
(* writeable) every call of the readability or writeability probe passes   *)
(* and leaves the share healthy; a probe call changes nothing of the       *)
(* machine but the content of the probe file.                              *)
C14_ProbesIdempotent ==
    [][ probe.mode = "rw" =>
          /\ probe'.mode = "rw"
          /\ mtab' = mtab
          /\ (Len(trace') > Len(trace)
                /\ trace'[Len(trace')].what \in {"share_readable", "share_writeable"})
             => trace'[Len(trace')].ok ]_vars

C14_Witness ==
    /\ Len(trace) = 4
    /\ trace[1].what = "share_readable" /\ trace[1].ok
    /\ trace[2].what = "share_writeable" /\ trace[2].ok
    /\ trace[3].what = "share_writeable" /\ trace[3].ok
    /\ trace[4].what = "share_readable" /\ trace[4].ok
    /\ probe = [mode |-> "rw", content |-> "timestamp"]

----------------------------------------------------------------------------
(* the invocation of main started with the fallback device mounted at the  *)
(* target mount point                                                      *)
StartedOnFallback ==
    /\ entry = "main"
    /\ \E i \in DOMAIN startMtab : startMtab[i] = MtabEntry(raid, mount_point)

(* C15: an invocation of main that starts while the fallback device is     *)
(* mounted at the target mount point evaluates no check predicate, issues  *)
(* no umount and no mount, attempts no alert email, and exits 1.           *)
C15_NoDoubleMount ==
    StartedOnFallback =>
        /\ PredEvs = <<>>
        /\ \A p \in DOMAIN trace :
              /\ ~IsCmd(trace[p], "umount")
              /\ ~IsCmd(trace[p], "mount")
              /\ trace[p].kind # "mail"
        /\ pc = "exited" /\ exitCode = 1

----------------------------------------------------------------------------
(* command `what` was issued for check i before position p of the trace *)
IssuedBefore(what, i, p) ==
    \E q \in 1..(p - 1) : IsCmd(trace[q], what) /\ trace[q].test = i

(* C16: in main, when a check fails umount and then mount are issued       *)
(* before the alert email is attempted: every mail attempt comes after the *)
(* mount of the same check, every mount after the umount of the same       *)
(* check, and a check whose fail actions ran to their end, or whose mail   *)
(* delivery aborted the process, has had its fallback mount issued.        *)
C16_FallbackBeforeAlert ==
    entry = "main" =>
        /\ \A p \in DOMAIN trace :
              /\ trace[p].kind = "mail" => IssuedBefore("mount", trace[p].test, p)
              /\ IsCmd(trace[p], "mount") => IssuedBefore("umount", trace[p].test, p)
              /\ (trace[p].kind = "act" /\ trace[p].what = "email_alert")
                    => IssuedBefore("mount", trace[p].test, p)
        /\ \A i \in DOMAIN runner :
              (Failed(i) /\ (Completed(i) \/ (aborted /\ idx = i)))
                  => /\ IssuedBefore("mount", i, Len(trace) + 1)
                     /\ \E p \in DOMAIN trace : trace[p].kind = "mail" /\ trace[p].test = i

C16_Witness ==
    /\ entry = "main" /\ aborted /\ idx = 3 /\ Failed(3)
    /\ trace[Len(trace)].kind = "mail" /\ ~trace[Len(trace)].ok
    /\ IssuedBefore("umount", 3, Len(trace)) /\ IssuedBefore("mount", 3, Len(trace))

====
